---- MODULE Spec2Model ----
(***************************************************************************)
(* Zodin Flash Tool: the Samsung download-mode session of                  *)
(* samsung_protocol.py (class SamsungProtocol) as a state machine.         *)
(*                                                                         *)
(* One API call runs at a time.  A call is a sequence of steps: every      *)
(* send_packet and every receive_packet of the call is one step, so that   *)
(* the order of the frames on the wire is part of the behaviour.  The      *)
(* device and the USB transport are the environment: a write is accepted   *)
(* or raises, a read delivers a reply frame, a short header, or raises.    *)
(***************************************************************************)
EXTENDS Integers, Sequences, FiniteSets, TLC

(***************************************************************************)
(* Bounds of the model.                                                    *)
(***************************************************************************)
\* longest partition image, in bytes
MaxLen == 5
\* the number of model bytes that stands for the 1024 * 1024 of the code
ScaledMiB == 2
\* the count of unanswered requests is kept up to this many
MaxOutstanding == 2
\* the most firmware files one job holds
MaxFiles == 2
\* the most partitions one TAR archive holds
MaxParts == 2
\* the most characters the text of a sidecar holds
MaxSidecar == 4
\* the most pieces a member name is put together from
MaxPieces == 3
\* send_packet calls in a row whose bytes are read back
MaxFrames == 2
\* the most members an archive given to parse_tar_firmware holds
MaxMembers == 3

(***************************************************************************)
(* Values.                                                                 *)
(***************************************************************************)
\* Python's None: no device handle, no endpoint, no packet type
None == -1
\* the handle usb.core.find returns, and the endpoint descriptors
UsbDevice == 1
\* the descriptor of the phone (SamsungDevice) the engine remembers
SamsungDevice == 1
Endpoint == 1

\* class PacketType
HANDSHAKE == 0
FLASH_SET_TOTAL_BYTES == 1
FLASH_SEND_DATA == 2
DUMP_PART_PIT == 3
DUMP_PART_NAND == 4
END_SESSION == 5
DEVICE_TYPE == 6
PIT_FILE == 7
DUMP_PART_SBOOT == 8

PacketType == {HANDSHAKE, FLASH_SET_TOTAL_BYTES, FLASH_SEND_DATA, DUMP_PART_PIT,
               DUMP_PART_NAND, END_SESSION, DEVICE_TYPE, PIT_FILE, DUMP_PART_SBOOT}

\* the partition images a caller may pass: one of every length up to MaxLen,
\* its bytes all different so that no two slices of it are equal
Images == {[i \in 1..n |-> 160 + i] : n \in 0..MaxLen}
\* the partition names a caller may pass (informational for this layer)
PartitionNames == {"BL", "AP"}

Min(a, b) == IF a < b THEN a ELSE b

\* struct.pack('<I', n): four bytes, least significant first
PackU32(n) ==
    << n % 256, (n \div 256) % 256, (n \div 65536) % 256, (n \div 16777216) % 256 >>

\* struct.pack('<I', n) raises struct.error unless 0 <= n < 2^32
\* (2^32 = 65536 * 65536)
PackU32Fits(n) == n >= 0 /\ n \div 65536 < 65536

\* a frame as send_packet builds it: header (type, len(data)) and the payload
Frame(type, payload) == [type |-> type, length |-> Len(payload), payload |-> payload]

VARIABLES
    device,          \* SamsungProtocol.device
    endpoint_out,    \* SamsungProtocol.endpoint_out
    endpoint_in,     \* SamsungProtocol.endpoint_in
    session_active,  \* SamsungProtocol.session_active
    pc,              \* position of the running call; "idle" between calls
    op,              \* the API call that is running, or that ran last
    partition_name,  \* flash_partition's argument
    data,            \* flash_partition's argument
    has_callback,    \* whether flash_partition got a progress_callback
    total_bytes,     \* flash_partition's local
    bytes_sent,      \* flash_partition's local
    packet_type,     \* the type the last receive_packet returned
    sent,            \* frames the running call has written, in order
    recvd,           \* packet types its receive_packet calls returned, in order
    progress,        \* progress records the running call has emitted, in order
    outstanding,     \* requests written on this connection whose reply has not
                     \* been read (counted up to MaxOutstanding)
    result,          \* "ok" or "fail": what the last call returned
    cause,           \* why the last call failed
    retval,          \* bytes (get_pit_data) or keys (get_device_info) returned
    prev,            \* op, result, cause and entry of the call before
    entry,           \* the state of the session when the running call began
    connected_device,\* ZodinFlashEngine.connected_device
    job_pc,          \* position of FlashThread.run / flash_firmware_files
    files,           \* firmware_files entries the loop has not reached yet
    partitions,      \* partitions of the current file not flashed yet
    flash_log,       \* the flash_partition calls of the job: name, result, frames
    current,         \* the file the loop is at: its slot and what is behind its path
    gui_op,          \* the first session operation the window's thread invoked
                     \* while the worker was in flash_firmware_files, or "none"
    job_result,      \* what flash_firmware_files returned
    job_cause,       \* why it returned False
    applied,         \* the last application of one of the static helpers: the
                     \* function, its argument and what it returned
    window           \* the fields of the main window (ZodinFlashTool)

session == << device, endpoint_out, endpoint_in, session_active >>
args == << partition_name, data, has_callback >>
locals == << total_bytes, bytes_sent, packet_type >>
logs == << sent, recvd, progress, outstanding >>
ret == << result, cause, retval >>
\* no static helper has been applied
NotApplied == [fn |-> "none"]

\* the window after ZodinFlashTool.__init__: no device, nothing selected, the
\* start button enabled as a new button is, no FlashThread
NewWindow ==
    [connected_devices |-> <<>>, current_device |-> None, start_button |-> TRUE,
     is_flashing |-> FALSE, selected |-> {}, flash_threads |-> 0,
     dialog |-> "none", phase |-> "running"]

\* the loop of flash_firmware_files is at no file
NoFile ==
    [file_type |-> "", file |-> [tar |-> FALSE, readable |-> FALSE, members |-> 0,
                                 valid |-> TRUE]]

job == << job_pc, files, partitions, flash_log, current, gui_op, job_result, job_cause >>
vars == << session, pc, op, args, locals, logs, ret, prev, entry, connected_device, job,
          applied, window >>

\* the state of the session, read off the fields of SamsungProtocol:
\* handshaken while session_active; connected while a device handle and both
\* endpoints are held; closed once disconnect has dropped the handle of a
\* connection that had found an endpoint; disconnected otherwise
SessionState ==
    IF session_active THEN "handshaken"
    ELSE IF device # None /\ endpoint_out # None /\ endpoint_in # None THEN "connected"
    ELSE IF device = None /\ (endpoint_out # None \/ endpoint_in # None) THEN "closed"
    ELSE "disconnected"


(***************************************************************************)
(* The environment: what the transport does with a write, and what a       *)
(* receive_packet finds on the bulk-IN endpoint.                           *)
(***************************************************************************)
\* type codes a device may put in a header: the nine known ones and one unknown
WireCodes == 0..9

\* (length field, payload bytes the read delivers): the read of the payload
\* returns at most `length` bytes
ReplyBodies ==
    { << 0, <<>> >>, << 2, <<7>> >>,
      << 4, <<1, 0, 0, 0>> >>, << 8, <<1, 0, 0, 0, 2, 0, 0, 0>> >> }

\* what one receive_packet call meets:
\*   timeout          the read of the header raises
\*   short_header     the read of the header delivers fewer than 8 bytes
\*   payload_timeout  the header arrives, the read of the payload raises
\*   frame            header and payload arrive
Replies ==
    { [kind |-> k, code |-> 0, length |-> 0, payload |-> <<>>] :
          k \in {"timeout", "short_header"} }
    \cup
    { [kind |-> k, code |-> c, length |-> b[1], payload |-> b[2]] :
          k \in {"frame", "payload_timeout"}, c \in WireCodes, b \in ReplyBodies }

\* send_packet: True when endpoint_out.write accepted the packet; a missing
\* endpoint raises AttributeError, which send_packet turns into False
send_packet(ep_out, accepted) == ep_out # None /\ accepted

\* receive_packet: << packet type or None, payload >>
receive_packet(ep_in, rx) ==
    IF ep_in = None THEN << None, <<>> >>
    ELSE IF rx.kind \in {"timeout", "short_header"} THEN << None, <<>> >>
    ELSE IF rx.code \notin PacketType THEN << None, <<>> >>
    ELSE IF rx.length > 0 /\ rx.kind = "payload_timeout" THEN << None, <<>> >>
    ELSE IF rx.length > 0 THEN << rx.code, rx.payload >>
    ELSE << rx.code, <<>> >>

(***************************************************************************)
(* Pieces of the operations.                                               *)
(***************************************************************************)
\* a handshake that takes any reply for the awaited one
HandshakeAcceptsAnyReply(ptype) == ptype # None

\* handshake: the reply is accepted
HandshakeAccepted(ptype) == ptype = HANDSHAKE

\* flash_partition: the payload of FLASH_SET_TOTAL_BYTES
TotalBytesPayload(n) == PackU32(n)

\* a flash that takes any reply for the acknowledgement of the total
TotalBytesAcceptsAnyReply(ptype) == ptype # None

\* flash_partition: the replies it accepts
TotalBytesAccepted(ptype) == ptype = FLASH_SET_TOTAL_BYTES

\* a flash that takes any reply for the acknowledgement of a chunk
SendDataAcceptsAnyReply(ptype) == ptype # None

SendDataAccepted(ptype) == ptype = FLASH_SEND_DATA

\* flash_partition: chunk_size = 1024 * 1024
chunk_size == ScaledMiB

\* a loop that stops before a last chunk shorter than chunk_size
MoreWholeChunks(sent_so_far, total) == sent_so_far + chunk_size <= total

\* a loop that runs once more when everything has been sent
MoreChunksOffByOne(sent_so_far, total) == sent_so_far <= total /\ sent_so_far < chunk_size

\* flash_partition: while bytes_sent < total_bytes
MoreChunks(sent_so_far, total) == sent_so_far < total

\* flash_partition: chunk_end = min(bytes_sent + chunk_size, total_bytes)
ChunkEnd(sent_so_far, total) == Min(sent_so_far + chunk_size, total)

\* flash_partition: chunk = data[bytes_sent:chunk_end]
\* (a Python slice clamps both ends to the length of the sequence)
Chunk(d, sent_so_far, chunk_end) ==
    SubSeq(d, Min(sent_so_far, Len(d)) + 1, Min(chunk_end, Len(d)))

\* a count that advances by a whole chunk_size whatever the chunk's length
AdvanceByChunkSize(sent_so_far, chunk) == sent_so_far + chunk_size

\* flash_partition: bytes_sent += len(chunk)
AdvanceBytesSent(sent_so_far, chunk) == sent_so_far + Len(chunk)

\* flash_partition: the FlashProgress it hands to progress_callback; the
\* percentage (bytes_sent / total_bytes) * 100 is kept as an exact fraction
ProgressRecord(name, sent_so_far, total) ==
    [current_bytes |-> sent_so_far,
     total_bytes   |-> total,
     current_file  |-> name,
     stage         |-> "Enviando dados",
     percentage    |-> [num |-> sent_so_far * 100, den |-> total]]

\* flash_partition: where the call goes once a chunk has been written
AfterChunkWritten == "fp_chunk_recv"

\* get_device_info: the keys of the dict it builds from a DEVICE_TYPE reply
DeviceInfoKeys(ptype, payload) ==
    IF ptype = DEVICE_TYPE /\ Len(payload) > 0
    THEN (IF Len(payload) >= 4 THEN <<"device_type">> ELSE <<>>)
         \o (IF Len(payload) >= 8 THEN <<"bootloader_version">> ELSE <<>>)
    ELSE <<>>

\* where a call continues after the handshake it made itself
AfterHandshake(call) ==
    CASE call = "flash_partition" -> "fp_total_send"
      [] call = "get_pit_data"    -> "pit_send"
      [] call = "get_device_info" -> "info_send"
      [] OTHER                    -> "idle"

\* an operation that goes on without looking at session_active
EntryPointSkipsHandshake(call, active) == AfterHandshake(call)

\* get_device_info, get_pit_data, flash_partition: if not self.session_active:
\* handshake first
EntryPoint(call, active) == IF active THEN AfterHandshake(call) ELSE "hs_send"

(***************************************************************************)
(* Steps shared by the operations.                                         *)
(***************************************************************************)
\* the running call returns
Return(res, why, value) ==
    /\ pc' = "idle"
    /\ result' = res
    /\ cause' = why
    /\ retval' = value

\* a call starts: its name and arguments, fresh locals and logs
Begin(call, name, d, cb) ==
    /\ pc = "idle"
    /\ op' = call
    /\ prev' = [op |-> op, result |-> result, cause |-> cause, entry |-> entry]
    /\ entry' = SessionState
    /\ partition_name' = name
    /\ data' = d
    /\ has_callback' = cb
    /\ total_bytes' = 0
    /\ bytes_sent' = 0
    /\ packet_type' = None
    /\ recvd' = <<>>
    /\ progress' = <<>>

\* send_packet(type, payload) at this position; on False the call returns
\* `failed`, otherwise it goes on at `next`
Send(type, payload, next, failed) ==
    /\ \E accepted \in BOOLEAN :
          IF send_packet(endpoint_out, accepted)
          THEN /\ sent' = Append(sent, Frame(type, payload))
               /\ outstanding' = Min(outstanding + 1, MaxOutstanding)
               /\ pc' = next
               /\ UNCHANGED ret
          ELSE /\ Return(failed, "send", <<>>)
               /\ UNCHANGED << sent, outstanding >>
    /\ UNCHANGED << session, op, args, recvd, progress, prev, entry >>

\* receive_packet() at this position: the type and payload it returns
Received(rx) == receive_packet(endpoint_in, rx)

\* why a reply was not the one awaited
Rejected(ptype) == IF ptype = None THEN "no_reply" ELSE "mismatch"

\* the bookkeeping of one receive_packet call; a call that returns no packet
\* (a timeout, a short header, an unknown type code) has read no reply
Receive(ptype) ==
    /\ packet_type' = ptype
    /\ recvd' = Append(recvd, ptype)
    /\ outstanding' = IF ptype # None /\ outstanding > 0
                      THEN outstanding - 1
                      ELSE outstanding

(***************************************************************************)
(* Init: a SamsungProtocol as __init__ leaves it, no call made yet.        *)
(***************************************************************************)
Init ==
    /\ device = None
    /\ endpoint_out = None
    /\ endpoint_in = None
    /\ session_active = FALSE
    /\ pc = "idle"
    /\ op = "none"
    /\ partition_name = ""
    /\ data = <<>>
    /\ has_callback = FALSE
    /\ total_bytes = 0
    /\ bytes_sent = 0
    /\ packet_type = None
    /\ sent = <<>>
    /\ recvd = <<>>
    /\ progress = <<>>
    /\ outstanding = 0
    /\ result = "none"
    /\ cause = "none"
    /\ retval = <<>>
    /\ prev = [op |-> "none", result |-> "none", cause |-> "none",
               entry |-> "disconnected"]
    /\ entry = "disconnected"
    /\ connected_device = None
    /\ job_pc = "idle"
    /\ files = <<>>
    /\ partitions = <<>>
    /\ flash_log = <<>>
    /\ current = NoFile
    /\ gui_op = "none"
    /\ job_result = "none"
    /\ job_cause = "none"
    /\ applied = NotApplied
    /\ window = NewWindow

(***************************************************************************)
(* connect_device, called through ZodinFlashEngine.connect_device, which   *)
(* keeps the descriptor in connected_device when the call succeeded.       *)
(* usb.core.find may find nothing; set_configuration may raise; either     *)
(* endpoint may be missing.  The fields are assigned as the code reaches   *)
(* them, and stay assigned when a later step fails.                        *)
(***************************************************************************)
ConnectOutcomes == {"not_found", "config_error", "no_endpoint_out", "no_endpoint_in", "ok"}

\* the fields connect_device assigns on its way to the outcome
Connected(outcome) ==
    /\ outstanding' = IF outcome = "ok" THEN 0 ELSE outstanding
    /\ device' = IF outcome = "not_found" THEN None ELSE UsbDevice
    /\ endpoint_out' =
          CASE outcome \in {"not_found", "config_error"} -> endpoint_out
            [] outcome = "no_endpoint_out"               -> None
            [] OTHER                                     -> Endpoint
    /\ endpoint_in' =
          CASE outcome \in {"not_found", "config_error"} -> endpoint_in
            [] outcome = "no_endpoint_in"                -> None
            [] OTHER                                     -> Endpoint
    /\ connected_device' = IF outcome = "ok" THEN SamsungDevice ELSE connected_device

connect_device ==
    /\ Begin("connect_device", "", <<>>, FALSE)
    /\ sent' = <<>>
    /\ UNCHANGED session_active
    /\ \E outcome \in ConnectOutcomes :
          /\ Connected(outcome)
          /\ IF outcome = "ok"
             THEN Return("ok", "none", <<>>)
             ELSE Return("fail", outcome, <<>>)
    /\ UNCHANGED applied

ConnectDevice == connect_device /\ UNCHANGED << job, window >>

(***************************************************************************)
(* handshake, called by the user or by another operation.                  *)
(***************************************************************************)
CallHandshake ==
    /\ Begin("handshake", "", <<>>, FALSE)
    /\ sent' = <<>>
    /\ pc' = "hs_send"
    /\ result' = "none" /\ cause' = "none" /\ retval' = <<>>
    /\ UNCHANGED << session, outstanding >>
    /\ UNCHANGED << connected_device, job, applied, window >>

HandshakeSend ==
    /\ pc = "hs_send"
    /\ Send(HANDSHAKE, <<>>, "hs_recv", "fail")
    /\ UNCHANGED locals
    /\ UNCHANGED << connected_device, job, applied, window >>

HandshakeRecv ==
    /\ pc = "hs_recv"
    /\ \E rx \in Replies :
          LET ptype == Received(rx)[1] IN
          /\ Receive(ptype)
          /\ IF HandshakeAccepted(ptype)
             THEN /\ session_active' = TRUE
                  /\ IF op = "handshake"
                     THEN Return("ok", "none", <<>>)
                     ELSE pc' = AfterHandshake(op) /\ UNCHANGED ret
             ELSE /\ UNCHANGED session_active
                  /\ Return("fail", Rejected(ptype), <<>>)
    /\ UNCHANGED << device, endpoint_out, endpoint_in, op, args, total_bytes,
                    bytes_sent, sent, progress, prev, entry >>
    /\ UNCHANGED << connected_device, job, applied, window >>

(***************************************************************************)
(* flash_partition.                                                        *)
(***************************************************************************)
CallFlashPartition ==
    \E name \in PartitionNames, d \in Images, cb \in BOOLEAN :
        /\ Begin("flash_partition", name, d, cb)
        /\ sent' = <<>>
        /\ pc' = EntryPoint("flash_partition", session_active)
        /\ result' = "none" /\ cause' = "none" /\ retval' = <<>>
        /\ UNCHANGED << session, outstanding >>
        /\ UNCHANGED << connected_device, job, applied, window >>

FlashTotalSend ==
    /\ pc = "fp_total_send"
    /\ total_bytes' = Len(data)
    /\ UNCHANGED << bytes_sent, packet_type >>
    /\ IF PackU32Fits(Len(data))
       THEN Send(FLASH_SET_TOTAL_BYTES, TotalBytesPayload(Len(data)),
                 "fp_total_recv", "fail")
       ELSE /\ Return("fail", "pack", <<>>)
            /\ UNCHANGED << session, op, args, logs, prev, entry >>
    /\ UNCHANGED << connected_device, job, applied, window >>

FlashTotalRecv ==
    /\ pc = "fp_total_recv"
    /\ \E rx \in Replies :
          LET ptype == Received(rx)[1] IN
          /\ Receive(ptype)
          /\ IF TotalBytesAccepted(ptype)
             THEN /\ bytes_sent' = 0
                  /\ IF MoreChunks(0, total_bytes)
                     THEN pc' = "fp_chunk_send" /\ UNCHANGED ret
                     ELSE Return("ok", "none", <<>>)
             ELSE /\ UNCHANGED bytes_sent
                  /\ Return("fail", Rejected(ptype), <<>>)
    /\ UNCHANGED << session, op, args, total_bytes, sent, progress, prev, entry >>
    /\ UNCHANGED << connected_device, job, applied, window >>

FlashChunkSend ==
    /\ pc = "fp_chunk_send"
    /\ Send(FLASH_SEND_DATA,
            Chunk(data, bytes_sent, ChunkEnd(bytes_sent, total_bytes)),
            AfterChunkWritten, "fail")
    /\ UNCHANGED locals
    /\ UNCHANGED << connected_device, job, applied, window >>

FlashChunkRecv ==
    /\ pc = "fp_chunk_recv"
    /\ \E rx \in Replies :
          LET ptype == Received(rx)[1]
              chunk == Chunk(data, bytes_sent, ChunkEnd(bytes_sent, total_bytes))
              now   == AdvanceBytesSent(bytes_sent, chunk)
          IN
          /\ Receive(ptype)
          /\ IF SendDataAccepted(ptype)
             THEN /\ bytes_sent' = now
                  /\ progress' =
                        IF has_callback
                        THEN Append(progress, ProgressRecord(partition_name, now, total_bytes))
                        ELSE progress
                  /\ IF MoreChunks(now, total_bytes)
                     THEN pc' = "fp_chunk_send" /\ UNCHANGED ret
                     ELSE Return("ok", "none", <<>>)
             ELSE /\ UNCHANGED << bytes_sent, progress >>
                  /\ Return("fail", Rejected(ptype), <<>>)
    /\ UNCHANGED << session, op, args, total_bytes, sent, prev, entry >>
    /\ UNCHANGED << connected_device, job, applied, window >>

(***************************************************************************)
(* get_pit_data.                                                           *)
(***************************************************************************)
\* a get_pit_data that returns an empty image
PitDropped(payload) == <<>>

\* return data
PitReturned(payload) == payload

CallGetPitData ==
    /\ Begin("get_pit_data", "", <<>>, FALSE)
    /\ sent' = <<>>
    /\ pc' = EntryPoint("get_pit_data", session_active)
    /\ result' = "none" /\ cause' = "none" /\ retval' = <<>>
    /\ UNCHANGED << session, outstanding >>
    /\ UNCHANGED << connected_device, job, applied, window >>

PitSend ==
    /\ pc = "pit_send"
    /\ Send(PIT_FILE, <<>>, "pit_recv", "fail")
    /\ UNCHANGED locals
    /\ UNCHANGED << connected_device, job, applied, window >>

\* packet_type, data = self.receive_packet(timeout=10000)
PitRecv ==
    /\ pc = "pit_recv"
    /\ \E rx \in Replies :
          LET got == Received(rx) IN
          /\ Receive(got[1])
          /\ data' = got[2]
          /\ IF got[1] = PIT_FILE
             THEN Return("ok", "none", PitReturned(got[2]))
             ELSE Return("fail", Rejected(got[1]), <<>>)
    /\ UNCHANGED << session, op, partition_name, has_callback, total_bytes, bytes_sent,
                    sent, progress, prev, entry >>
    /\ UNCHANGED << connected_device, job, applied, window >>

(***************************************************************************)
(* get_device_info.  It returns a dict, empty on every failure; the call   *)
(* counts as failed when the dict is empty.                                *)
(***************************************************************************)
CallGetDeviceInfo ==
    /\ Begin("get_device_info", "", <<>>, FALSE)
    /\ sent' = <<>>
    /\ pc' = EntryPoint("get_device_info", session_active)
    /\ result' = "none" /\ cause' = "none" /\ retval' = <<>>
    /\ UNCHANGED << session, outstanding >>
    /\ UNCHANGED << connected_device, job, applied, window >>

InfoSend ==
    /\ pc = "info_send"
    /\ Send(DEVICE_TYPE, <<>>, "info_recv", "fail")
    /\ UNCHANGED locals
    /\ UNCHANGED << connected_device, job, applied, window >>

InfoRecv ==
    /\ pc = "info_recv"
    /\ \E rx \in Replies :
          LET got  == Received(rx)
              keys == DeviceInfoKeys(got[1], got[2])
          IN
          /\ Receive(got[1])
          /\ IF keys # <<>>
             THEN Return("ok", "none", keys)
             ELSE Return("fail",
                         IF got[1] = DEVICE_TYPE THEN "no_data" ELSE Rejected(got[1]),
                         <<>>)
    /\ UNCHANGED << session, op, args, total_bytes, bytes_sent, sent, progress,
                    prev, entry >>
    /\ UNCHANGED << connected_device, job, applied, window >>

(***************************************************************************)
(* reboot_device: END_SESSION is written and no reply is awaited.          *)
(***************************************************************************)
reboot_device ==
    /\ Begin("reboot_device", "", <<>>, FALSE)
    /\ \E accepted \in BOOLEAN :
          IF send_packet(endpoint_out, accepted)
          THEN /\ sent' = << Frame(END_SESSION, <<>>) >>
               /\ session_active' = FALSE
               /\ Return("ok", "none", <<>>)
          ELSE /\ sent' = <<>>
               /\ UNCHANGED session_active
               /\ Return("fail", "send", <<>>)
    /\ UNCHANGED << device, endpoint_out, endpoint_in, outstanding, connected_device,
                    applied >>

RebootDevice == reboot_device /\ UNCHANGED << job, window >>

(***************************************************************************)
(* disconnect, called through ZodinFlashEngine.disconnect, which forgets   *)
(* the descriptor: END_SESSION if the session is active (whether the write *)
(* worked is ignored), then the device handle is disposed of.  The         *)
(* endpoint fields are left as they are.                                   *)
(***************************************************************************)
disconnect ==
    /\ Begin("disconnect", "", <<>>, FALSE)
    /\ \E accepted \in BOOLEAN :
          sent' = IF session_active /\ send_packet(endpoint_out, accepted)
                  THEN << Frame(END_SESSION, <<>>) >>
                  ELSE <<>>
    /\ session_active' = FALSE
    /\ device' = None
    /\ outstanding' = 0
    /\ Return("ok", "none", <<>>)
    /\ connected_device' = None
    /\ UNCHANGED << endpoint_out, endpoint_in, applied >>

Disconnect == disconnect /\ UNCHANGED << job, window >>

(***************************************************************************)
(* The specification.                                                      *)
(***************************************************************************)
Next ==
    \/ ConnectDevice
    \/ CallHandshake
    \/ HandshakeSend
    \/ HandshakeRecv
    \/ CallFlashPartition
    \/ FlashTotalSend
    \/ FlashTotalRecv
    \/ FlashChunkSend
    \/ FlashChunkRecv
    \/ CallGetPitData
    \/ PitSend
    \/ PitRecv
    \/ CallGetDeviceInfo
    \/ InfoSend
    \/ InfoRecv
    \/ RebootDevice
    \/ Disconnect

Spec == Init /\ [][Next]_vars

(***************************************************************************)
(* The flash job: start_flash collects the selected files and starts a     *)
(* FlashThread, whose run calls ZodinFlashEngine.flash_firmware_files;     *)
(* the thread's flash_completed signal is handled by the window.           *)
(***************************************************************************)
\* the slots of the window, in the order start_flash collects them
FileTypes == << "BL", "AP", "CP", "CSC", "USERDATA" >>

\* the partitions parse_tar_firmware tells apart, as keys of its result
TarPartitions ==
    << "BOOT", "RECOVERY", "SYSTEM", "USERDATA", "CACHE", "MODEM", "BOOTLOADER" >>

\* the image of n bytes
ImageOf(n) == [i \in 1..n |-> 160 + i]

\* what the loop finds behind a path: a TAR archive (path ending in .tar)
\* with so many members, or a single image, or a file of either kind that
\* cannot be opened and read
\* cannot be opened and read; valid is what verify_firmware_integrity says
\* of it
FileKinds ==
    [tar : {TRUE}, readable : {TRUE}, members : 0..MaxParts, valid : BOOLEAN]
        \cup [tar : {FALSE}, readable : {TRUE}, members : {1}, valid : BOOLEAN]
        \cup [tar : BOOLEAN, readable : {FALSE}, members : {0}, valid : BOOLEAN]

\* firmware_files: the selected slots, in slot order
FirmwareFiles == { SubSeq(FileTypes, 1, n) : n \in 1..MaxFiles }

\* parse_tar_firmware: the partitions of a readable archive, in member order
parse_tar_firmware(file) ==
    [k \in 1..file.members |-> [name |-> TarPartitions[k], data |-> ImageOf(k)]]

\* what the loop flashes for one entry of firmware_files: the partitions of
\* the archive, or the one image under the upper-cased slot name
PartitionsOf(file_type, file) ==
    IF file.tar
    THEN parse_tar_firmware(file)
    ELSE << [name |-> file_type, data |-> ImageOf(ScaledMiB + 1)] >>

\* a loop for which a failed integrity check ends the job
IntegrityStrict(valid) == ~valid

\* if not FirmwareParser.verify_firmware_integrity(file_path): a warning is
\* logged, and nothing else
IntegrityFatal(valid) == FALSE

\* a loop that takes the entries of firmware_files from the end
LastEntry(entries) == entries[Len(entries)]

\* for file_type, file_path in firmware_files.items(): the entry the loop
\* takes next
NextEntry(entries) == Head(entries)

\* a loop that goes on to the next partition whatever flash_partition returned
IgnoresFailure(res) == FALSE

\* if not self.protocol.flash_partition(...): return False
FlashFailed(res) == res # "ok"

\* an engine that starts the job whether or not a device is connected
DeviceNotChecked(dev) == FALSE

\* if not self.connected_device: "Nenhum dispositivo conectado", return False
NotConnected(dev) == dev = None

\* no job is running: none was started, or the last one was completed
JobIdle == job_pc \in {"idle", "completed"}

\* flash_firmware_files returns
JobReturn(res, why) ==
    /\ job_pc' = "returned"
    /\ job_result' = res
    /\ job_cause' = why

protocol == << session, pc, op, args, locals, logs, ret, prev, entry >>

\* FlashThread.run and the entry of flash_firmware_files
StartFlash ==
    /\ JobIdle
    /\ pc = "idle"
    /\ flash_log' = <<>>
    /\ partitions' = <<>>
    /\ current' = NoFile
    /\ \E firmware_files \in FirmwareFiles :
          IF NotConnected(connected_device)
          THEN /\ files' = <<>>
               /\ JobReturn("fail", "not_connected")
          ELSE /\ files' = firmware_files
               /\ job_pc' = "next_file"
               /\ job_result' = "none"
               /\ job_cause' = "none"
    /\ UNCHANGED << protocol, connected_device, gui_op, applied, window >>

\* for file_type, file_path in firmware_files.items(): the archive is parsed,
\* or the image read, when the loop reaches the file, and what is behind the
\* path shows then
NextFile ==
    /\ job_pc = "next_file"
    /\ IF files = <<>>
       THEN /\ JobReturn("ok", "none")
            /\ UNCHANGED << files, partitions, current >>
       ELSE \E file \in FileKinds :
               /\ current' = [file_type |-> NextEntry(files), file |-> file]
               /\ files' = Tail(files)
               /\ IF IntegrityFatal(file.valid)
                  THEN /\ JobReturn("fail", "integrity")
                       /\ UNCHANGED partitions
                  ELSE IF ~file.readable
                  THEN /\ JobReturn("fail", "package")
                       /\ UNCHANGED partitions
                  ELSE /\ partitions' = PartitionsOf(NextEntry(files), file)
                       /\ job_pc' = "next_partition"
                       /\ UNCHANGED << job_result, job_cause >>
    /\ UNCHANGED << protocol, connected_device, flash_log, gui_op, applied, window >>

\* for partition_name, data in firmware_data.items(): flash_partition is
\* called with the engine's progress callback
NextPartition ==
    /\ job_pc = "next_partition"
    /\ IF partitions = <<>>
       THEN /\ job_pc' = "next_file"
            /\ UNCHANGED << protocol, partitions >>
       ELSE /\ Begin("flash_partition", Head(partitions).name, Head(partitions).data, TRUE)
            /\ sent' = <<>>
            /\ pc' = EntryPoint("flash_partition", session_active)
            /\ result' = "none" /\ cause' = "none" /\ retval' = <<>>
            /\ partitions' = Tail(partitions)
            /\ job_pc' = "flashing"
            /\ UNCHANGED << session, outstanding >>
    /\ UNCHANGED << connected_device, files, flash_log, current, gui_op, job_result,
                    job_cause, applied, window >>

\* flash_partition has returned to the loop
FlashReturned ==
    /\ job_pc = "flashing"
    /\ pc = "idle"
    /\ flash_log' = Append(flash_log, [file_type |-> current.file_type,
                                       name |-> partition_name, result |-> result,
                                       frames |-> Len(sent)])
    /\ IF FlashFailed(result)
       THEN JobReturn("fail", "flash")
       ELSE /\ job_pc' = "next_partition"
            /\ UNCHANGED << job_result, job_cause >>
    /\ UNCHANGED << protocol, connected_device, files, partitions, current, gui_op,
                    applied, window >>

\* the window's flash_completed: after a successful job, reboot_device if
\* Auto Reboot is ticked.  The worker has finished: the locals of
\* flash_firmware_files are gone
FlashCompleted ==
    /\ job_pc = "returned"
    /\ \E auto_reboot \in BOOLEAN :
          IF job_result = "ok" /\ auto_reboot
          THEN reboot_device
          ELSE UNCHANGED << protocol, connected_device, applied >>
    /\ job_pc' = "completed"
    /\ files' = <<>>
    /\ partitions' = <<>>
    /\ flash_log' = <<>>
    /\ current' = NoFile
    /\ UNCHANGED << gui_op, job_result, job_cause, window >>

\* the engine is connected to a phone: ZodinFlashEngine.connect_device, called
\* while no job runs
EngineConnect == JobIdle /\ ConnectDevice

\* closeEvent disconnects the engine
CloseEvent == JobIdle /\ Disconnect

JobNext ==
    \/ EngineConnect
    \/ StartFlash
    \/ NextFile
    \/ NextPartition
    \/ HandshakeSend
    \/ HandshakeRecv
    \/ FlashTotalSend
    \/ FlashTotalRecv
    \/ FlashChunkSend
    \/ FlashChunkRecv
    \/ FlashReturned
    \/ FlashCompleted
    \/ CloseEvent

JobSpec == Init /\ [][JobNext]_vars

(***************************************************************************)
(* The two threads.  The worker (FlashThread.run) is inside                *)
(* flash_firmware_files; meanwhile the window's thread handles the close   *)
(* of the window.  closeEvent does not stop the worker, and the engine has *)
(* no lock.                                                                *)
(***************************************************************************)
\* the worker is inside flash_firmware_files
WorkerRunning == job_pc \in {"next_file", "next_partition", "flashing"}

\* closeEvent while the worker runs, the question answered with Yes:
\* disconnect, on the engine the worker is using; the event is accepted and
\* the program ends
CloseWhileFlashing ==
    /\ WorkerRunning
    /\ gui_op = "none"
    /\ job_pc' = "closed"
    /\ session_active' = FALSE
    /\ device' = None
    /\ outstanding' = 0
    /\ connected_device' = None
    /\ gui_op' = "disconnect"
    /\ UNCHANGED << endpoint_out, endpoint_in, pc, op, args, locals, sent, recvd,
                    progress, ret, prev, entry, files, partitions, flash_log, current,
                    job_result, job_cause, applied, window >>

ThreadNext ==
    \/ JobNext
    \/ CloseWhileFlashing

ThreadSpec == Init /\ [][ThreadNext]_vars

(***************************************************************************)
(* The main window.  Its handlers run on the window's thread, one at a     *)
(* time: update_device_status on every device_detected signal of the       *)
(* detection thread, browse_file and reset_form on the file rows,          *)
(* start_flash on a click of the start button, closeEvent on the close of  *)
(* the window.  An exception that leaves a handler ends the handler where  *)
(* it was raised; PyQt then ends the process unless an exception hook is   *)
(* installed.                                                              *)
(***************************************************************************)
\* class SamsungMode: the names of its members
SamsungMode == {"NORMAL", "DOWNLOAD", "RECOVERY", "FASTBOOT"}

\* SamsungMode.<name> evaluates to a member; a name the class does not have
\* raises AttributeError
HasMember(enum, name) == name \in enum

\* what DeviceDetectionThread.run emits: the list detect_devices returned,
\* or the empty list when it raised (any_connected is len(devices) > 0)
DetectedLists == { <<>>, << SamsungDevice >>, << SamsungDevice, SamsungDevice >> }

\* the slots of the flash tab
Slots == { FileTypes[i] : i \in 1..Len(FileTypes) }

update_device_status ==
    /\ window.phase = "running"
    /\ \E devices \in DetectedLists :
          IF devices = <<>>
          THEN /\ window' = [window EXCEPT !.connected_devices = devices,
                                           !.start_button = FALSE,
                                           !.current_device = None]
               /\ UNCHANGED << protocol, connected_device, job, applied >>
          ELSE IF ~HasMember(SamsungMode, "ADB")
          THEN \* the loop over devices compares device.mode with
               \* SamsungMode.ADB: AttributeError, after the button was enabled
               /\ \E fatal \in BOOLEAN :
                     window' = [window EXCEPT
                                   !.connected_devices = devices,
                                   !.start_button = TRUE,
                                   !.phase = IF fatal THEN "aborted" ELSE "running"]
               /\ UNCHANGED << protocol, connected_device, job, applied >>
          ELSE IF window.current_device = None
          THEN \* a detected device is in DOWNLOAD mode: connect_device is called
               /\ window' = [window EXCEPT !.connected_devices = devices,
                                           !.start_button = TRUE,
                                           !.current_device = devices[1]]
               /\ connect_device
               /\ UNCHANGED job
          ELSE /\ window' = [window EXCEPT !.connected_devices = devices,
                                           !.start_button = TRUE]
               /\ UNCHANGED << protocol, connected_device, job, applied >>

\* browse_file: a file is chosen for a slot and its box ticked, unless the
\* dialog was cancelled
browse_file ==
    /\ window.phase = "running"
    /\ \E file_type \in Slots, chosen \in BOOLEAN :
          window' = [window EXCEPT
                        !.selected = IF chosen THEN @ \cup {file_type} ELSE @]
    /\ UNCHANGED << protocol, connected_device, job, applied >>

\* reset_form: every path cleared, every box unticked
reset_form ==
    /\ window.phase = "running"
    /\ window' = [window EXCEPT !.selected = {}]
    /\ UNCHANGED << protocol, connected_device, job, applied >>

\* start_flash: the slot of the start button, which only an enabled button
\* calls
start_flash ==
    /\ window.phase = "running"
    /\ window.start_button
    /\ IF window.selected = {}
       THEN window' = [window EXCEPT !.dialog = "no_files"]
       ELSE IF window.current_device = None
       THEN window' = [window EXCEPT !.dialog = "no_device"]
       ELSE \E reply \in {"Yes", "No"} :
               IF reply # "Yes"
               THEN window' = [window EXCEPT !.dialog = "declined"]
               ELSE window' = [window EXCEPT !.dialog = "confirmed",
                                             !.is_flashing = TRUE,
                                             !.start_button = FALSE,
                                             !.flash_threads = @ + 1]
    /\ UNCHANGED << protocol, connected_device, job, applied >>

\* closeEvent: the detection thread is stopped; with a FlashThread running
\* the user is asked first; then the engine is disconnected
closeEvent ==
    /\ window.phase = "running"
    /\ \E reply \in {"Yes", "No"} :
          IF window.flash_threads > 0 /\ reply = "No"
          THEN /\ window' = [window EXCEPT !.dialog = "stay"]
               /\ UNCHANGED << protocol, connected_device, applied >>
          ELSE /\ window' = [window EXCEPT !.phase = "closed"]
               /\ disconnect
    /\ UNCHANGED job

WindowNext ==
    \/ update_device_status
    \/ browse_file
    \/ reset_form
    \/ start_flash
    \/ closeEvent

WindowSpec == Init /\ [][WindowNext]_vars

(***************************************************************************)
(* Vocabulary of the properties.                                           *)
(***************************************************************************)
\* the call has returned
Done(call) == op = call /\ pc = "idle"

\* the state table of the session manager: the operations and the states
\* they are legal in
SessionOps ==
    {"handshake", "get_device_info", "get_pit_data", "flash_partition", "reboot_device"}

Legal(call, state) ==
    IF call = "handshake" THEN state = "connected" ELSE state = "handshaken"

\* the session has been closed: not active, and the device handle given up
Closed == ~session_active /\ device = None

\* the frames of one type among the frames written
OfType(frames, type) == SelectSeq(frames, LAMBDA f : f.type = type)

(***************************************************************************)
(* C1  State legality.  An operation invoked in a state the state table    *)
(* does not allow fails, writes no frame to the device and leaves the      *)
(* state of the session as it was.                                         *)
(***************************************************************************)
C1_IllegalOperationRejected ==
    (op \in SessionOps /\ ~Legal(op, entry)) =>
        /\ sent = <<>>
        /\ SessionState = entry
        /\ (pc = "idle" => result = "fail")

(***************************************************************************)
(* C2  handshake() in the connected state sends exactly one HANDSHAKE      *)
(* frame with an empty payload, reads exactly one reply, and the session   *)
(* becomes handshaken if and only if that reply's type is HANDSHAKE.       *)
(***************************************************************************)
C2_HandshakeOneFrameOneReply ==
    (Done("handshake") /\ entry = "connected") =>
        /\ sent = << Frame(HANDSHAKE, <<>>) >>
        /\ Len(recvd) = 1
        /\ (session_active <=> recvd[1] = HANDSHAKE)

(***************************************************************************)
(* C2 as amended: handshake() in the connected state writes one HANDSHAKE  *)
(* frame with an empty payload and nothing else; when the transport        *)
(* rejects that write it writes no frame, reads no reply and fails;        *)
(* otherwise it reads exactly one reply, and the session becomes           *)
(* handshaken (and the call succeeds) if and only if that reply's type is  *)
(* HANDSHAKE.                                                              *)
(***************************************************************************)
C2_HandshakeOneFrameOneReplyUnlessWriteFails ==
    (Done("handshake") /\ entry = "connected") =>
        IF cause = "send"
        THEN sent = <<>> /\ recvd = <<>> /\ ~session_active /\ result = "fail"
        ELSE /\ sent = << Frame(HANDSHAKE, <<>>) >>
             /\ Len(recvd) = 1
             /\ (session_active <=> recvd[1] = HANDSHAKE)
             /\ (result = "ok" <=> session_active)

C2_HandshakeCompleted ==
    /\ Done("handshake") /\ entry = "connected"
    /\ sent = << Frame(HANDSHAKE, <<>>) >>
    /\ recvd = << HANDSHAKE >>
    /\ session_active

(***************************************************************************)
(* C3  When the reply to HANDSHAKE has another type, or no reply arrives   *)
(* before the timeout, handshake() fails and the session is closed: it no  *)
(* longer holds the device interface.                                      *)
(***************************************************************************)
C3_FailedHandshakeClosesSession ==
    (Done("handshake") /\ entry = "connected" /\ cause \in {"mismatch", "no_reply"}) =>
        result = "fail" /\ Closed

(***************************************************************************)
(* C4  After a handshake that failed because the device answered with      *)
(* another type, a subsequent flash_partition returns a state error and    *)
(* writes no frame at all.                                                 *)
(***************************************************************************)
C4_NoFrameAfterFailedHandshake ==
    ( /\ op = "flash_partition"
      /\ prev.op = "handshake" /\ prev.entry = "connected"
      /\ prev.result = "fail" /\ prev.cause = "mismatch" ) =>
        /\ sent = <<>>
        /\ (pc = "idle" => result = "fail")

(***************************************************************************)
(* C5  Chunk totality.  A successful flash_partition of N bytes with chunk *)
(* size C has written exactly ceil(N / C) FLASH_SEND_DATA frames, their    *)
(* payloads are the consecutive slices data[k*C .. min((k+1)*C, N)], the   *)
(* lengths add up to N, and the last progress record emitted has           *)
(* current_bytes = total_bytes = N.                                        *)
(***************************************************************************)
CeilDiv(n, c) == (n + c - 1) \div c

RECURSIVE SumOfLengths(_)
SumOfLengths(frames) ==
    IF frames = <<>> THEN 0 ELSE Head(frames).length + SumOfLengths(Tail(frames))

C5_ChunkTotality ==
    (Done("flash_partition") /\ result = "ok") =>
        LET N      == Len(data)
            C      == chunk_size
            chunks == OfType(sent, FLASH_SEND_DATA)
        IN  /\ Len(chunks) = CeilDiv(N, C)
            /\ \A k \in 1..Len(chunks) :
                  /\ chunks[k].payload = SubSeq(data, (k - 1) * C + 1, Min(k * C, N))
                  /\ chunks[k].length = Len(chunks[k].payload)
            /\ SumOfLengths(chunks) = N
            /\ (has_callback /\ N > 0 => progress # <<>>)
            /\ (progress # <<>> =>
                  /\ progress[Len(progress)].current_bytes = N
                  /\ progress[Len(progress)].total_bytes = N)

C5_FlashedWithShortLastChunk ==
    /\ Done("flash_partition") /\ result = "ok"
    /\ Len(data) > chunk_size /\ Len(data) % chunk_size # 0
    /\ Len(OfType(sent, FLASH_SEND_DATA)) >= 2
    /\ progress # <<>>

(***************************************************************************)
(* C6  The wire traffic of a session is strictly request/reply: a request  *)
(* is written only after the reply to the previous request has been read,  *)
(* so there is never more than one outstanding request.                    *)
(***************************************************************************)
C6_AtMostOneOutstandingRequest == outstanding <= 1

(***************************************************************************)
(* C7  A protocol-level error during flash_partition (a reply of another   *)
(* type, no reply before the timeout) makes the partition fail, moves the  *)
(* session to closed, and nothing is retried: no frame is written twice    *)
(* and no frame follows the request whose reply was in error.              *)
(***************************************************************************)
C7_FlashErrorClosesSession ==
    ( /\ Done("flash_partition") /\ entry = "handshaken"
      /\ \E i \in 1..Len(recvd) : recvd[i] # sent[i].type ) =>
        /\ result = "fail"
        /\ Closed
        /\ \A i \in 1..Len(recvd) : recvd[i] # sent[i].type => i = Len(sent)
        /\ \A i, j \in 1..Len(sent) : i # j => sent[i] # sent[j]

(***************************************************************************)
(* C8  flash_partition first sends FLASH_SET_TOTAL_BYTES whose payload is  *)
(* the length of data as a little-endian u32; if the reply's type is not   *)
(* FLASH_SET_TOTAL_BYTES the flash fails and no FLASH_SEND_DATA frame is   *)
(* written for that partition.  (Lengths here are below 256, so the        *)
(* payload is the length followed by three zero bytes.)                    *)
(***************************************************************************)
C8_TotalBytesFirst ==
    op = "flash_partition" =>
        LET total   == Frame(FLASH_SET_TOTAL_BYTES, << Len(data), 0, 0, 0 >>)
            flashed == SelectSeq(sent, LAMBDA f : f.type # HANDSHAKE)
        IN  /\ (entry = "handshaken" /\ sent # <<>> => sent[1] = total)
            /\ (flashed # <<>> => flashed[1] = total)
            /\ \A i \in 1..Len(sent) :
                  sent[i].type = FLASH_SEND_DATA =>
                      \E j \in 1..(i - 1) :
                          /\ sent[j] = total
                          /\ j <= Len(recvd)
                          /\ recvd[j] = FLASH_SET_TOTAL_BYTES
            /\ \A j \in 1..Len(recvd) :
                  (sent[j].type = FLASH_SET_TOTAL_BYTES /\ recvd[j] # FLASH_SET_TOTAL_BYTES) =>
                      /\ OfType(sent, FLASH_SEND_DATA) = <<>>
                      /\ pc = "idle" /\ result = "fail"

C8_TotalBytesRefused ==
    /\ Done("flash_partition") /\ entry = "handshaken"
    /\ Len(data) > 0
    /\ sent = << Frame(FLASH_SET_TOTAL_BYTES, << Len(data), 0, 0, 0 >>) >>
    /\ recvd = << FLASH_SEND_DATA >>
    /\ result = "fail"

(***************************************************************************)
(* C9  Flashing an empty partition sends exactly one FLASH_SET_TOTAL_BYTES *)
(* frame with payload 00 00 00 00, reads one ack, sends no FLASH_SEND_DATA *)
(* frame, emits exactly one progress record with current 0 and total 0,    *)
(* and returns ok.                                                         *)
(***************************************************************************)
C9_EmptyFlashOneProgress ==
    ( /\ Done("flash_partition") /\ entry = "handshaken"
      /\ data = <<>> /\ has_callback
      /\ recvd = << FLASH_SET_TOTAL_BYTES >> ) =>
        /\ sent = << Frame(FLASH_SET_TOTAL_BYTES, <<0, 0, 0, 0>>) >>
        /\ Len(progress) = 1
        /\ progress[1].current_bytes = 0
        /\ progress[1].total_bytes = 0
        /\ result = "ok"

(***************************************************************************)
(* C9 as amended: flashing an empty partition sends exactly one            *)
(* FLASH_SET_TOTAL_BYTES frame with payload 00 00 00 00, reads one ack,    *)
(* sends no FLASH_SEND_DATA frame, emits no progress record, and returns   *)
(* ok (when the ack has the type FLASH_SET_TOTAL_BYTES, and only then).    *)
(***************************************************************************)
C9_EmptyFlashNoProgress ==
    (op = "flash_partition" /\ entry = "handshaken" /\ data = <<>>) =>
        /\ OfType(sent, FLASH_SEND_DATA) = <<>>
        /\ progress = <<>>
        /\ Len(sent) <= 1 /\ Len(recvd) <= Len(sent)
        /\ (recvd = << FLASH_SET_TOTAL_BYTES >> =>
              /\ pc = "idle" /\ result = "ok"
              /\ sent = << Frame(FLASH_SET_TOTAL_BYTES, <<0, 0, 0, 0>>) >>)
        /\ (pc = "idle" /\ result = "ok" => recvd = << FLASH_SET_TOTAL_BYTES >>)

C9_EmptyFlashed ==
    /\ Done("flash_partition") /\ entry = "handshaken"
    /\ data = <<>> /\ has_callback
    /\ sent = << Frame(FLASH_SET_TOTAL_BYTES, <<0, 0, 0, 0>>) >>
    /\ recvd = << FLASH_SET_TOTAL_BYTES >>
    /\ result = "ok"

(***************************************************************************)
(* C10  Progress monotonicity.  Within one flash_partition call the        *)
(* current_bytes of the progress records emitted never decrease and never  *)
(* exceed total_bytes, and the last one equals total_bytes when the call   *)
(* returns success.                                                        *)
(***************************************************************************)
C10_ProgressMonotone ==
    op = "flash_partition" =>
        /\ \A i \in 1..Len(progress) :
              /\ progress[i].total_bytes = Len(data)
              /\ progress[i].current_bytes <= progress[i].total_bytes
              /\ (i > 1 => progress[i - 1].current_bytes <= progress[i].current_bytes)
        /\ (pc = "idle" /\ result = "ok" /\ has_callback /\ Len(data) > 0 =>
              /\ progress # <<>>
              /\ progress[Len(progress)].current_bytes = Len(data))

C10_SeveralProgressRecords ==
    /\ Done("flash_partition") /\ result = "ok"
    /\ Len(progress) >= 2
    /\ progress[1].current_bytes < progress[Len(progress)].current_bytes

(***************************************************************************)
(* C11  When sending a chunk or reading its ack fails, flash_partition     *)
(* surfaces the error and emits no progress record for that chunk: the     *)
(* i-th progress record emitted follows the accepted FLASH_SEND_DATA ack   *)
(* of the i-th chunk, and its current_bytes is the number of bytes of the  *)
(* chunks acknowledged so far.                                             *)
(***************************************************************************)
C11_ProgressOnlyAfterAck ==
    op = "flash_partition" =>
        LET chunks == OfType(sent, FLASH_SEND_DATA)
            off    == Len(sent) - Len(chunks)
        IN  /\ \A i \in 1..Len(progress) :
                  /\ i <= Len(chunks)
                  /\ off + i <= Len(recvd)
                  /\ sent[off + i].type = FLASH_SEND_DATA
                  /\ recvd[off + i] = FLASH_SEND_DATA
                  /\ progress[i].current_bytes = SumOfLengths(SubSeq(chunks, 1, i))
            /\ ( /\ pc = "idle" /\ chunks # <<>>
                 /\ (Len(recvd) < Len(sent) \/ recvd[Len(sent)] # FLASH_SEND_DATA) ) =>
                    /\ result = "fail"
                    /\ Len(progress) < Len(chunks)

C11_ChunkAckFailedAfterProgress ==
    /\ Done("flash_partition") /\ has_callback
    /\ result = "fail"
    /\ Len(progress) = 1
    /\ Len(OfType(sent, FLASH_SEND_DATA)) = 2
    /\ recvd[Len(recvd)] # FLASH_SEND_DATA

(***************************************************************************)
(* C12  A successful reboot moves the session to closed: once              *)
(* reboot_device has returned True on a handshaken session the session     *)
(* is closed, and a handshake, get_device_info, get_pit_data or            *)
(* flash_partition called next writes no frame.                            *)
(***************************************************************************)
C12_RebootClosesSession ==
    /\ (Done("reboot_device") /\ entry = "handshaken" /\ result = "ok") => Closed
    /\ ( /\ prev.op = "reboot_device" /\ prev.entry = "handshaken" /\ prev.result = "ok"
         /\ op \in SessionOps \ {"reboot_device"} ) => sent = <<>>

(***************************************************************************)
(* C13  Closed is terminal: an operation called on the session that        *)
(* disconnect left behind writes no frame, and a second disconnect         *)
(* changes nothing and writes nothing.                                     *)
(***************************************************************************)
C13_ClosedIsTerminal ==
    ( /\ prev.op = "disconnect" /\ prev.entry \in {"connected", "handshaken"}
      /\ op \in SessionOps \cup {"disconnect"} ) =>
        /\ sent = <<>>
        /\ Done("disconnect") => (Closed /\ SessionState = entry)

(***************************************************************************)
(* C14  A failed connect leaves the session disconnected and holding       *)
(* nothing: whichever way connect_device fails on a fresh session, no      *)
(* device handle and no endpoint is stored afterwards.                     *)
(***************************************************************************)
C14_FailedConnectHoldsNothing ==
    (Done("connect_device") /\ entry = "disconnected" /\ result = "fail") =>
        /\ device = None
        /\ endpoint_out = None
        /\ endpoint_in = None
        /\ ~session_active

(***************************************************************************)
(* C15  Exclusive device ownership: a connect_device called while the      *)
(* session is connected or handshaken fails and leaves the session as it   *)
(* was.                                                                    *)
(***************************************************************************)
C15_SecondConnectRefused ==
    (Done("connect_device") /\ entry \in {"connected", "handshaken"}) =>
        /\ result = "fail"
        /\ SessionState = entry

(***************************************************************************)
(* C16  An active session holds its device: in every reachable state,      *)
(* session_active implies that the device handle and both endpoints are    *)
(* held.                                                                   *)
(***************************************************************************)
C16_ActiveSessionHoldsDevice ==
    session_active =>
        /\ device # None
        /\ endpoint_out # None
        /\ endpoint_in # None

(***************************************************************************)
(* C19  No END_SESSION after a fatal failure: the disconnect that          *)
(* follows a flash_partition or handshake that failed with a transport or  *)
(* protocol error writes no END_SESSION frame.                             *)
(***************************************************************************)
C19_NoEndSessionAfterFatalFailure ==
    ( /\ op = "disconnect"
      /\ prev.op \in {"flash_partition", "handshake"}
      /\ prev.result = "fail"
      /\ prev.cause \in {"send", "no_reply", "mismatch"} ) =>
        OfType(sent, END_SESSION) = <<>>

\* the frames the flash_partition calls of the job have written
RECURSIVE FramesOf(_)
FramesOf(log) == IF log = <<>> THEN 0 ELSE Head(log).frames + FramesOf(Tail(log))

(***************************************************************************)
(* C17  The orchestrator stops on the first failure: once flash_partition  *)
(* has failed for one partition, that call is the last of the job,         *)
(* flash_firmware_files returns failure, and no frame is written for any   *)
(* later partition or file.                                                *)
(***************************************************************************)
C17_StopOnFirstFailure ==
    \A i \in 1..Len(flash_log) :
        flash_log[i].result # "ok" =>
            /\ i = Len(flash_log)
            /\ job_pc \in {"returned", "completed"}
            /\ job_result = "fail"
            /\ job_pc = "returned" =>
                  /\ op = "flash_partition" /\ pc = "idle"
                  /\ partition_name = flash_log[i].name
                  /\ Len(sent) = flash_log[i].frames

C17_FailedWithPartitionsLeft ==
    /\ job_pc = "returned"
    /\ job_result = "fail"
    /\ Len(flash_log) = 2
    /\ flash_log[1].result = "ok"
    /\ flash_log[2].result = "fail"
    /\ files # <<>>

(***************************************************************************)
(* C18  Disconnect is unconditional: when a run of the orchestrator is     *)
(* over, flash_completed included, the session is disconnected and the     *)
(* device handle has been released.                                        *)
(***************************************************************************)
C18_JobEndsDisconnected ==
    (job_pc = "completed" /\ job_cause # "not_connected") =>
        /\ device = None
        /\ ~session_active

(***************************************************************************)
(* C20  Package errors fail before any device I/O: when an archive or      *)
(* image of the job cannot be read, flash_firmware_files has failed        *)
(* without a single frame written.                                         *)
(***************************************************************************)
C20_PackageErrorBeforeAnyFrame ==
    (job_pc = "returned" /\ job_cause = "package") =>
        /\ job_result = "fail"
        /\ FramesOf(flash_log) = 0

\* the flash_partition calls of the job that belong to one slot
CallsFor(file_type) == SelectSeq(flash_log, LAMBDA c : c.file_type = file_type)

\* the place of a slot in the order of firmware_files
SlotOf(file_type) == CHOOSE i \in 1..Len(FileTypes) : FileTypes[i] = file_type

(***************************************************************************)
(* C21  The integrity verdict is advisory: a file whose integrity check    *)
(* failed is flashed all the same, partition by partition, and the job     *)
(* never returns failure for the integrity check alone: when the job of    *)
(* such a file has failed, a flash_partition call has failed.              *)
(***************************************************************************)
C21_IntegrityAdvisory ==
    /\ job_cause # "integrity"
    /\ (~current.file.valid /\ current.file.readable) =>
          \/ /\ job_result = "fail" /\ job_cause = "flash"
             /\ flash_log # <<>>
             /\ flash_log[Len(flash_log)].result # "ok"
          \/ /\ job_result # "fail"
             /\ Len(CallsFor(current.file_type)) + Len(partitions)
                    + (IF job_pc = "flashing" THEN 1 ELSE 0) = current.file.members
             /\ \A i \in 1..Len(flash_log) : flash_log[i].result = "ok"

C21_FlashedDespiteWarning ==
    /\ job_pc = "returned" /\ job_result = "ok"
    /\ ~current.file.valid
    /\ current.file.tar
    /\ Len(CallsFor(current.file_type)) = 2

(***************************************************************************)
(* C22  Across the partitions of one job the frames follow the order of    *)
(* the slots in firmware_files: the flash_partition calls are made one     *)
(* after the other, the calls of an earlier slot all come before the       *)
(* calls of a later slot, the slots still to come are all later than the   *)
(* one the loop is at, and no partition of a file is flashed twice.        *)
(***************************************************************************)
C22_SlotOrder ==
    /\ \A i, j \in 1..Len(flash_log) :
          i < j =>
             /\ SlotOf(flash_log[i].file_type) <= SlotOf(flash_log[j].file_type)
             /\ flash_log[i].file_type = flash_log[j].file_type =>
                   flash_log[i].name # flash_log[j].name
    /\ \A i \in 1..Len(flash_log) :
          SlotOf(flash_log[i].file_type) <= SlotOf(current.file_type)
    /\ \A k \in 1..Len(files) :
          /\ current # NoFile => SlotOf(current.file_type) < SlotOf(files[k])
          /\ \A l \in 1..Len(files) : k < l => SlotOf(files[k]) < SlotOf(files[l])
    /\ job_pc \in {"next_file", "next_partition", "returned"} => pc = "idle"
    /\ job_pc = "flashing" =>
          /\ op = "flash_partition"
          /\ \A i \in 1..Len(flash_log) :
                flash_log[i].file_type = current.file_type =>
                   flash_log[i].name # partition_name

C22_TwoSlotsFlashed ==
    /\ job_pc = "returned"
    /\ Len(flash_log) = 3
    /\ flash_log[1].file_type = "BL"
    /\ flash_log[2].file_type = "AP"
    /\ flash_log[3].file_type = "AP"
    /\ flash_log[1].frames >= 3
    /\ flash_log[2].frames >= 2

(***************************************************************************)
(* C23  All session operations run on one thread: while the worker is      *)
(* executing flash_firmware_files, no other thread invokes connect_device, *)
(* reboot_device or disconnect on the engine.                              *)
(***************************************************************************)
C23_OneThread == gui_op = "none"

(***************************************************************************)
(* The static helpers of FirmwareParser, applied to inputs of bounded      *)
(* size.  Text is a sequence of character codes.                           *)
(***************************************************************************)
\* the characters of the texts tried: a, A, 0, space and newline
Chars == {97, 65, 48, 32, 10}
\* str.split() and str.strip() without argument: whitespace
Whitespace == {32, 10}

\* the texts of up to n characters
Texts(n) == UNION { [1..k -> Chars] : k \in 0..n }

\* a comparison that tells upper case from lower case
KeepCase(text) == text

\* str.lower()
lower(text) == [i \in 1..Len(text) |-> IF text[i] \in 65..90 THEN text[i] + 32 ELSE text[i]]

\* str.strip()
RECURSIVE lstrip(_)
lstrip(text) ==
    IF text # <<>> /\ Head(text) \in Whitespace THEN lstrip(Tail(text)) ELSE text

RECURSIVE rstrip(_)
rstrip(text) ==
    IF text # <<>> /\ text[Len(text)] \in Whitespace
    THEN rstrip(SubSeq(text, 1, Len(text) - 1))
    ELSE text

strip(text) == rstrip(lstrip(text))

\* str.split(): the whitespace-delimited tokens, in order
RECURSIVE split(_)
split(text) ==
    LET rest == lstrip(text)
        ends == { i \in 1..Len(rest) : rest[i] \in Whitespace }
        stop == IF ends = {} THEN Len(rest) + 1
                ELSE CHOOSE i \in ends : \A j \in ends : i <= j
    IN  IF rest = <<>> THEN <<>>
        ELSE << SubSeq(rest, 1, stop - 1) >> \o split(SubSeq(rest, stop, Len(rest)))

\* hashlib.md5(...).hexdigest(): lower-case hexadecimal digits; the digests
\* of the files tried
Digests == [1..2 -> {97, 48}]

\* what is at file_path: a file with this digest, or nothing that can be read
Firmware == [readable : {TRUE}, md5 : Digests] \cup [readable : {FALSE}, md5 : {<<>>}]

\* what is at file_path + '.md5': nothing, or a file with this text
Sidecars ==
    [exists : {TRUE}, text : Texts(MaxSidecar)] \cup [exists : {FALSE}, text : {<<>>}]

\* verify_firmware_integrity; an exception (no token in the sidecar, a file
\* that cannot be read) gives False
verify_firmware_integrity(file, md5_file) ==
    IF md5_file.exists
    THEN IF split(strip(md5_file.text)) = <<>> THEN FALSE
         ELSE IF ~file.readable THEN FALSE
         ELSE lower(file.md5) = lower(split(strip(md5_file.text))[1])
    ELSE TRUE

\* verify_firmware_integrity of flash_engines.py: result['valid'].  The file
\* is hashed first; an exception (a file that cannot be read, no token in the
\* sidecar) leaves valid at False
flash_engines_verify_firmware_integrity(file, md5_file) ==
    IF ~file.readable THEN FALSE
    ELSE IF md5_file.exists
    THEN IF split(strip(md5_file.text)) = <<>> THEN FALSE
         ELSE lower(file.md5) = lower(split(strip(md5_file.text))[1])
    ELSE TRUE

\* both checkers applied to the same file and sidecar
VerifyFirmwareIntegrity ==
    /\ applied = NotApplied
    /\ \E file \in Firmware, md5_file \in Sidecars :
          applied' = [fn |-> "verify_firmware_integrity", file |-> file,
                      md5_file |-> md5_file,
                      value |-> verify_firmware_integrity(file, md5_file),
                      valid |-> flash_engines_verify_firmware_integrity(file, md5_file)]
    /\ UNCHANGED << protocol, connected_device, job, window >>

(***************************************************************************)
(* parse_tar_firmware: the key under which a member of the archive is      *)
(* stored.                                                                 *)
(***************************************************************************)
\* the words of the classification rules, as texts
w_boot == << 98, 111, 111, 116 >>
w_recovery == << 114, 101, 99, 111, 118, 101, 114, 121 >>
w_system == << 115, 121, 115, 116, 101, 109 >>
w_userdata == << 117, 115, 101, 114, 100, 97, 116, 97 >>
w_cache == << 99, 97, 99, 104, 101 >>
w_modem == << 109, 111, 100, 101, 109 >>
w_cp == << 99, 112 >>
w_sboot == << 115, 98, 111, 111, 116 >>
w_bl == << 98, 108 >>
\* the keys of the classification rules, as texts
K_BOOT == << 66, 79, 79, 84 >>
K_RECOVERY == << 82, 69, 67, 79, 86, 69, 82, 89 >>
K_SYSTEM == << 83, 89, 83, 84, 69, 77 >>
K_USERDATA == << 85, 83, 69, 82, 68, 65, 84, 65 >>
K_CACHE == << 67, 65, 67, 72, 69 >>
K_MODEM == << 77, 79, 68, 69, 77 >>
K_BOOTLOADER == << 66, 79, 79, 84, 76, 79, 65, 68, 69, 82 >>

\* needle in text
Contains(needle, text) ==
    \E i \in 0..(Len(text) - Len(needle)) : SubSeq(text, i + 1, i + Len(needle)) = needle

\* str.upper()
upper(text) == [i \in 1..Len(text) |-> IF text[i] \in 97..122 THEN text[i] - 32 ELSE text[i]]

\* os.path.splitext(p)[0]: the path up to the last dot of its last component,
\* leading dots of that component not counted
splitext_root(path) ==
    LET seps  == { i \in 1..Len(path) : path[i] = 47 }
        start == IF seps = {} THEN 1 ELSE (CHOOSE i \in seps : \A j \in seps : j <= i) + 1
        dots  == { i \in start..Len(path) :
                     /\ path[i] = 46
                     /\ \E j \in start..(i - 1) : path[j] # 46 }
    IN  IF dots = {} THEN path
        ELSE SubSeq(path, 1, (CHOOSE i \in dots : \A j \in dots : j <= i) - 1)

\* a chain that looks for 'sboot' and 'bl' before the other words
firmware_key_bootloader_first(member_name) ==
    LET filename == lower(member_name)
    IN  IF Contains(w_sboot, filename) \/ Contains(w_bl, filename) THEN K_BOOTLOADER
        ELSE IF Contains(w_boot, filename) THEN K_BOOT
        ELSE IF Contains(w_recovery, filename) THEN K_RECOVERY
        ELSE IF Contains(w_system, filename) THEN K_SYSTEM
        ELSE IF Contains(w_userdata, filename) THEN K_USERDATA
        ELSE IF Contains(w_cache, filename) THEN K_CACHE
        ELSE IF Contains(w_modem, filename) \/ Contains(w_cp, filename) THEN K_MODEM
        ELSE upper(splitext_root(member_name))

\* the if / elif chain of parse_tar_firmware
firmware_key(member_name) ==
    LET filename == lower(member_name)
    IN  IF Contains(w_boot, filename) THEN K_BOOT
        ELSE IF Contains(w_recovery, filename) THEN K_RECOVERY
        ELSE IF Contains(w_system, filename) THEN K_SYSTEM
        ELSE IF Contains(w_userdata, filename) THEN K_USERDATA
        ELSE IF Contains(w_cache, filename) THEN K_CACHE
        ELSE IF Contains(w_modem, filename) \/ Contains(w_cp, filename) THEN K_MODEM
        ELSE IF Contains(w_sboot, filename) \/ Contains(w_bl, filename) THEN K_BOOTLOADER
        ELSE upper(splitext_root(member_name))

\* the pieces member names are put together from: the words of the rules,
\* BOOT, s, x, a directory d/ and an extension .b
Pieces ==
    { w_boot, w_recovery, w_system, w_userdata, w_cache, w_modem, w_cp, w_bl, K_BOOT,
      << 115 >>, << 120 >>, << 100, 47 >>, << 46, 98 >> }

RECURSIVE Joined(_)
Joined(pieces) == IF pieces = <<>> THEN <<>> ELSE Head(pieces) \o Joined(Tail(pieces))

\* the member names tried: up to MaxPieces pieces in a row; a member that
\* is a file (member.isfile()) has a name that does not end in a slash
MemberNames ==
    { name \in { Joined(ps) : ps \in UNION { [1..n -> Pieces] : n \in 1..MaxPieces } } :
        name[Len(name)] # 47 }

ParseTarMember ==
    /\ applied = NotApplied
    /\ \E member_name \in MemberNames :
          applied' = [fn |-> "firmware_key", name |-> member_name,
                      value |-> firmware_key(member_name)]
    /\ UNCHANGED << protocol, connected_device, job, window >>

\* a dictionary that keeps the value a key got first (not the code)
SetItemKeepsFirst(dict, key, value) ==
    IF \E i \in 1..Len(dict) : dict[i].key = key
    THEN dict
    ELSE Append(dict, [key |-> key, value |-> value])

\* firmware_data[key] = value: a key the dictionary has keeps its place and
\* gets the new value, a new key goes to the end
SetItem(dict, key, value) ==
    IF \E i \in 1..Len(dict) : dict[i].key = key
    THEN [i \in 1..Len(dict) |->
             IF dict[i].key = key THEN [key |-> key, value |-> value] ELSE dict[i]]
    ELSE Append(dict, [key |-> key, value |-> value])

\* the loop of parse_tar_firmware over tar.getmembers(): firmware_data after
\* the members, starting from the dictionary given
RECURSIVE firmware_data(_, _)
firmware_data(dict, members) ==
    IF members = <<>> THEN dict
    ELSE LET member == Head(members)
         IN  firmware_data(IF member.isfile
                           THEN SetItem(dict, firmware_key(member.name), member.data)
                           ELSE dict,
                           Tail(members))

\* the archives tried: up to MaxMembers members, regular files or not, named
\* boot, sboot, bl or x, the bytes of each member telling its place
Archives ==
    UNION { { [k \in 1..n |-> [name |-> m[k][1], isfile |-> m[k][2], data |-> << 160 + k >>]] :
                m \in [1..n -> {w_boot, w_sboot, w_bl, << 120 >>} \X BOOLEAN] } :
            n \in 0..MaxMembers }

ParseTarFirmware ==
    /\ applied = NotApplied
    /\ \E members \in Archives :
          applied' = [fn |-> "parse_tar_firmware", members |-> members,
                      value |-> firmware_data(<<>>, members)]
    /\ UNCHANGED << protocol, connected_device, job, window >>

(***************************************************************************)
(* The frame codec, byte by byte.  send_packet writes                      *)
(* struct.pack('<II', type, len(data)) + data to endpoint_out;             *)
(* receive_packet reads 8 bytes from endpoint_in, unpacks them, and reads  *)
(* data_length more bytes when data_length > 0.  The two endpoints are     *)
(* joined here by a stream reader: a read of n bytes delivers the next     *)
(* bytes of the stream, at most n of them, and consumes what it delivers;  *)
(* a read that finds nothing raises the timeout error of the transport.    *)
(***************************************************************************)
\* struct.unpack('<I', bytes) read most significant byte first (not the code)
UnpackU32BigEndian(bytes) ==
    bytes[4] + 256 * bytes[3] + 65536 * bytes[2] + 16777216 * bytes[1]

\* struct.unpack('<I', bytes): least significant byte first
UnpackU32(bytes) ==
    bytes[1] + 256 * bytes[2] + 65536 * bytes[3] + 16777216 * bytes[4]

\* header = struct.pack('<II', packet_type.value, len(data))
header(type, bytes) == PackU32(type) \o PackU32(Len(bytes))

\* packet = header + data, the bytes send_packet hands to endpoint_out.write
packet(type, bytes) == header(type, bytes) \o bytes

\* endpoint_in.read(n, timeout) on a stream: the bytes delivered
read(stream, n) == SubSeq(stream, 1, Min(n, Len(stream)))

\* a reader that delivers bytes without consuming them (not the code)
RestKeepsAll(stream, taken) == stream

\* what is left of the stream after a read has delivered `taken`
Rest(stream, taken) == SubSeq(stream, Len(taken) + 1, Len(stream))

\* one receive_packet call on the stream: the pair it returns (type, data),
\* the data_length it unpacked (None when it got no full header), the sizes
\* of the reads it issued, and the stream it leaves behind
ReceivePacketFrom(stream) ==
    LET header_data == read(stream, 8)
        after_header == Rest(stream, header_data)
        failed == [type |-> None, data |-> <<>>, length |-> None,
                   reads |-> <<8>>, rest |-> after_header]
    IN  IF Len(header_data) < 8 THEN failed
        ELSE LET packet_type_val == UnpackU32(SubSeq(header_data, 1, 4))
                 data_length == UnpackU32(SubSeq(header_data, 5, 8))
             IN  IF packet_type_val \notin PacketType
                 THEN [failed EXCEPT !.length = data_length]
                 ELSE IF data_length > 0
                 THEN LET payload == read(after_header, data_length)
                      IN  IF payload = <<>>
                          THEN [type |-> None, data |-> <<>>, length |-> data_length,
                                reads |-> <<8, data_length>>, rest |-> after_header]
                          ELSE [type |-> packet_type_val, data |-> payload,
                                length |-> data_length,
                                reads |-> <<8, data_length>>,
                                rest |-> Rest(after_header, payload)]
                 ELSE [type |-> packet_type_val, data |-> <<>>, length |-> 0,
                       reads |-> <<8>>, rest |-> after_header]

\* the payloads tried: empty, one byte, two bytes, and one that looks like a
\* header of its own
Payloads == { <<>>, <<0>>, <<1, 0>>, <<2, 0, 0, 0, 1, 0, 0, 0>> }

\* the frames a caller of send_packet may pass: a PacketType and a payload
Packets == { << t, d >> : t \in PacketType, d \in Payloads }

\* up to MaxFrames send_packet calls in a row
PacketRuns == UNION { [1..n -> Packets] : n \in 1..MaxFrames }

\* the bytes endpoint_out was given by a run of send_packet calls
RECURSIVE Written(_)
Written(run) ==
    IF run = <<>> THEN <<>> ELSE packet(Head(run)[1], Head(run)[2]) \o Written(Tail(run))

\* what a device may put on the wire by itself: a header with a known or an
\* unknown type code and a length field of 0, 1, 2 or 256, followed by some
\* bytes, and every prefix of that
DeviceStreams ==
    UNION { { SubSeq(s, 1, n) : n \in 1..Len(s) } :
              s \in { PackU32(c) \o PackU32(l) \o d :
                        c \in {PIT_FILE, 9}, l \in {0, 1, 2, 256}, d \in Payloads } }

\* a run of send_packet calls whose bytes reach endpoint_in
SendPackets ==
    /\ applied = NotApplied
    /\ \E run \in PacketRuns :
          applied' = [fn |-> "receive_packet", origin |-> "send_packet",
                      frames |-> run, stream |-> Written(run), received |-> <<>>]
    /\ UNCHANGED << protocol, connected_device, job, window >>

\* the device puts bytes of its own on the wire
DeviceSends ==
    /\ applied = NotApplied
    /\ \E s \in DeviceStreams :
          applied' = [fn |-> "receive_packet", origin |-> "device",
                      frames |-> <<>>, stream |-> s, received |-> <<>>]
    /\ UNCHANGED << protocol, connected_device, job, window >>

\* one receive_packet call while bytes are waiting
ReceivePacket ==
    /\ applied.fn = "receive_packet"
    /\ applied.stream # <<>>
    /\ LET got == ReceivePacketFrom(applied.stream)
       IN  applied' = [applied EXCEPT
                          !.stream = got.rest,
                          !.received = Append(@, [type |-> got.type, data |-> got.data,
                                                  length |-> got.length,
                                                  reads |-> got.reads,
                                                  consumed |-> Len(applied.stream) - Len(got.rest)])]
    /\ UNCHANGED << protocol, connected_device, job, window >>

(***************************************************************************)
(* flash_partition with an image too large to write out: the image is      *)
(* given by its length, total_bytes = hi * 65536 + lo, and the call is     *)
(* followed up to its first flash frame.                                   *)
(***************************************************************************)
\* len(data): lengths around 2^16 and around 2^32
Sizes == { [hi |-> h, lo |-> l] : h \in {0, 1, 65535, 65536, 65537}, l \in {0, 1, 65535} }

\* a struct.pack that keeps the low 32 bits of any number (not the code)
StructPackTruncates(size) == TRUE

\* struct.pack('<I', total_bytes) raises struct.error unless total_bytes < 2^32
StructPackFits(size) == size.hi < 65536

\* struct.pack('<I', total_bytes): four bytes, least significant first
StructPack(size) ==
    << size.lo % 256, size.lo \div 256, size.hi % 256, (size.hi \div 256) % 256 >>

\* the frames flash_partition writes up to FLASH_SET_TOTAL_BYTES, and whether
\* it goes on: the handshake first when the session is not active, then the
\* total; struct.error is caught by the except branch, which returns False
FlashPartitionStart(active, reply, size) ==
    LET shaken == IF active THEN <<>> ELSE << Frame(HANDSHAKE, <<>>) >>
    IN  IF ~active /\ ~HandshakeAccepted(reply)
        THEN [sent |-> shaken, result |-> "fail", cause |-> Rejected(reply)]
        ELSE IF StructPackFits(size)
        THEN [sent |-> Append(shaken, Frame(FLASH_SET_TOTAL_BYTES, StructPack(size))),
              result |-> "none", cause |-> "none"]
        ELSE [sent |-> shaken, result |-> "fail", cause |-> "pack"]

FlashPartitionSized ==
    /\ applied = NotApplied
    /\ \E active \in BOOLEAN, reply \in {None, HANDSHAKE, PIT_FILE}, size \in Sizes :
          applied' = [fn |-> "flash_partition", active |-> active, reply |-> reply,
                      size |-> size, call |-> FlashPartitionStart(active, reply, size)]
    /\ UNCHANGED << protocol, connected_device, job, window >>

(***************************************************************************)
(* UpdateInstaller.install_update.  The application directory is given by  *)
(* what is under each name: nothing, the installed file, or the file of    *)
(* the update.  A copy may raise (disk full, permissions): the files       *)
(* copied before it stay copied.                                           *)
(***************************************************************************)
AppFiles == {"zodin_flash_tool.py", "samsung_protocol.py", "updater.py"}

\* the application directory before the update: the two main files, and
\* updater.py or not
AppDirs ==
    { [n \in AppFiles |-> IF n = "updater.py" /\ ~u THEN "absent" ELSE "installed"] :
        u \in BOOLEAN }

\* os.listdir of the directory found in the archive: names of AppFiles, each
\* at most once, in any order
Listings ==
    { l \in UNION { [1..n -> AppFiles] : n \in 0..Cardinality(AppFiles) } :
        \A i, j \in 1..Len(l) : l[i] = l[j] => i = j }

\* what can go wrong: the backup cannot be made, the archive is no ZIP file,
\* the copy of the item at this place raises (0: none does), the import of
\* the installed module fails
Faults ==
    [backup : BOOLEAN, zip : BOOLEAN, copy : 0..Cardinality(AppFiles), import : BOOLEAN]

\* the copy loop of _extract_update: the items before the one whose copy
\* raises are copied over the installed files
RECURSIVE CopyItems(_, _, _, _)
CopyItems(dir, items, k, raises_at) ==
    IF k > Len(items) THEN [ok |-> TRUE, dir |-> dir]
    ELSE IF k = raises_at THEN [ok |-> FALSE, dir |-> dir]
    ELSE CopyItems([dir EXCEPT ![items[k]] = "update"], items, k + 1, raises_at)

\* _extract_update: False when the archive cannot be opened, when no
\* directory of it holds zodin_flash_tool.py, or when a copy raised
extract_update(dir, items, faults) ==
    IF faults.zip THEN [ok |-> FALSE, dir |-> dir]
    ELSE IF \A i \in 1..Len(items) : items[i] # "zodin_flash_tool.py"
    THEN [ok |-> FALSE, dir |-> dir]
    ELSE CopyItems(dir, items, 1, faults.copy)

\* _verify_installation: the two main files exist and the module imports
verify_installation(dir, faults) ==
    /\ dir["zodin_flash_tool.py"] # "absent"
    /\ dir["samsung_protocol.py"] # "absent"
    /\ ~faults.import

\* install_update: success or not, and the application directory after it
install_update(dir, items, faults) ==
    IF faults.backup THEN [ok |-> FALSE, backup |-> FALSE, dir |-> dir]
    ELSE LET extracted == extract_update(dir, items, faults)
         IN  IF ~extracted.ok
             THEN \* "Falha ao extrair nova versão": returned as _extract_update
                  \* left the directory
                  [ok |-> FALSE, backup |-> TRUE, dir |-> extracted.dir]
             ELSE IF ~verify_installation(extracted.dir, faults)
             THEN [ok |-> FALSE, backup |-> TRUE, dir |-> dir]
             ELSE [ok |-> TRUE, backup |-> TRUE, dir |-> extracted.dir]

InstallUpdate ==
    /\ applied = NotApplied
    /\ \E dir \in AppDirs, items \in Listings, faults \in Faults :
          applied' = [fn |-> "install_update", dir |-> dir, items |-> items,
                      faults |-> faults, value |-> install_update(dir, items, faults)]
    /\ UNCHANGED << protocol, connected_device, job, window >>

HelperNext ==
    \/ VerifyFirmwareIntegrity
    \/ ParseTarMember
    \/ SendPackets
    \/ DeviceSends
    \/ ReceivePacket
    \/ FlashPartitionSized
    \/ ParseTarFirmware
    \/ InstallUpdate

HelperSpec == Init /\ [][HelperNext]_vars

\* the contiguous pieces of a text
Slices(text) == { SubSeq(text, i, j) : i, j \in 1..Len(text) }

\* D is the first whitespace-delimited token of the text
IsFirstToken(D, text) ==
    /\ D # <<>>
    /\ \A i \in 1..Len(D) : D[i] \notin Whitespace
    /\ \E lead \in 0..Len(text) :
          /\ \A i \in 1..lead : text[i] \in Whitespace
          /\ lead + Len(D) <= Len(text)
          /\ SubSeq(text, lead + 1, lead + Len(D)) = D
          /\ lead + Len(D) < Len(text) => text[lead + Len(D) + 1] \in Whitespace

\* the two texts are equal but for the case of their letters
SameIgnoringCase(a, b) ==
    /\ Len(a) = Len(b)
    /\ \A i \in 1..Len(a) :
          \/ a[i] = b[i]
          \/ a[i] \in 65..90 /\ b[i] = a[i] + 32
          \/ b[i] \in 65..90 /\ a[i] = b[i] + 32

(***************************************************************************)
(* C24  When the sidecar path + '.md5' exists and its first                *)
(* whitespace-delimited token is D, the verdict on a readable file is      *)
(* valid if and only if md5(file) equals D but for case; when there is no  *)
(* sidecar the verdict is valid.                                           *)
(***************************************************************************)
C24_Md5Verdict ==
    applied.fn = "verify_firmware_integrity" =>
        /\ ~applied.md5_file.exists => applied.value
        /\ \A D \in Slices(applied.md5_file.text) :
              ( /\ applied.md5_file.exists
                /\ applied.file.readable
                /\ IsFirstToken(D, applied.md5_file.text) ) =>
                    (applied.value <=> SameIgnoringCase(applied.file.md5, D))

C24_UpperCaseDigestAccepted ==
    /\ applied.fn = "verify_firmware_integrity"
    /\ applied.md5_file.exists
    /\ applied.file.md5 = << 97, 48 >>
    /\ applied.md5_file.text = << 10, 65, 48, 32 >>
    /\ applied.value

\* the classification table: the words of each rule and its key, in order
Rules ==
    << [words |-> {w_boot},          key |-> K_BOOT],
       [words |-> {w_recovery},      key |-> K_RECOVERY],
       [words |-> {w_system},        key |-> K_SYSTEM],
       [words |-> {w_userdata},      key |-> K_USERDATA],
       [words |-> {w_cache},         key |-> K_CACHE],
       [words |-> {w_modem, w_cp},   key |-> K_MODEM],
       [words |-> {w_sboot, w_bl},   key |-> K_BOOTLOADER] >>

\* the rule matches the name: one of its words is in the name, whatever the
\* case of the letters
Matches(rule, name) ==
    \E w \in rule.words :
        \E i \in 0..(Len(name) - Len(w)) :
            SameIgnoringCase(SubSeq(name, i + 1, i + Len(w)), w)

(***************************************************************************)
(* C25  A member is classified by the first rule, in the order boot,       *)
(* recovery, system, userdata, cache, modem or cp, sboot or bl, one of     *)
(* whose words is in its name whatever the case: a name that several       *)
(* rules match gets the key of the earliest.                               *)
(***************************************************************************)
C25_FirstRuleWins ==
    applied.fn = "firmware_key" =>
        \A r \in 1..Len(Rules) :
            ( /\ Matches(Rules[r], applied.name)
              /\ \A q \in 1..(r - 1) : ~Matches(Rules[q], applied.name) ) =>
                  applied.value = Rules[r].key

C25_BootAndBlIsBoot ==
    /\ applied.fn = "firmware_key"
    /\ applied.name = K_BOOT \o w_bl
    /\ applied.value = K_BOOT

\* the last component of a path
Basename(path) ==
    LET seps == { i \in 1..Len(path) : path[i] = 47 }
    IN  IF seps = {} THEN path
        ELSE SubSeq(path, (CHOOSE i \in seps : \A j \in seps : j <= i) + 1, Len(path))

(***************************************************************************)
(* C26  A member whose name no rule matches is stored under the            *)
(* upper-cased basename of the member without its extension, also when     *)
(* the name has a directory prefix.                                        *)
(***************************************************************************)
C26_UnmatchedIsBasename ==
    ( /\ applied.fn = "firmware_key"
      /\ \A r \in 1..Len(Rules) : ~Matches(Rules[r], applied.name) ) =>
          applied.value = upper(splitext_root(Basename(applied.name)))

(***************************************************************************)
(* C27  get_pit_data writes one PIT_FILE frame with an empty payload,      *)
(* reads one reply to it, and returns the payload of that reply as it was  *)
(* received when the reply's type is PIT_FILE, and no data otherwise; a    *)
(* successful call on a handshaken session leaves the session handshaken.  *)
(***************************************************************************)
C27_GetPit ==
    op = "get_pit_data" =>
        LET asked == OfType(sent, PIT_FILE)
        IN  /\ Len(asked) <= 1
            /\ \A i \in 1..Len(sent) :
                  \/ sent[i] = Frame(PIT_FILE, <<>>) /\ i = Len(sent)
                  \/ sent[i].type = HANDSHAKE /\ i = 1 /\ entry # "handshaken"
            /\ Len(recvd) <= Len(sent)
            /\ (Done("get_pit_data") /\ result = "ok") =>
                  /\ Len(asked) = 1
                  /\ Len(recvd) = Len(sent)
                  /\ recvd[Len(recvd)] = PIT_FILE
                  /\ retval = data
                  /\ entry = "handshaken" => SessionState = "handshaken"
            /\ (Done("get_pit_data") /\ result = "fail") => retval = <<>>
            /\ (Done("get_pit_data") /\ Len(asked) = 1 /\ Len(recvd) = Len(sent)
                   /\ recvd[Len(recvd)] # PIT_FILE) => result = "fail"

C27_PitImageReturned ==
    /\ Done("get_pit_data") /\ result = "ok"
    /\ entry = "handshaken"
    /\ sent = << Frame(PIT_FILE, <<>>) >>
    /\ recvd = << PIT_FILE >>
    /\ retval = << 1, 0, 0, 0, 2, 0, 0, 0 >>

(***************************************************************************)
(* C28.  Frame round trip: the bytes send_packet builds for a packet type  *)
(* and a payload (type as u32 little endian, length as u32 little endian,  *)
(* payload) are decoded by receive_packet to the same type and the same    *)
(* payload.                                                                *)
(***************************************************************************)
C28_FrameRoundTrip ==
    (/\ applied.fn = "receive_packet"
     /\ applied.origin = "send_packet"
     /\ Len(applied.received) >= 1) =>
        LET first == applied.received[1]
        IN  << first.type, first.data >> = applied.frames[1]

\* a PIT_FILE packet with a two byte payload has come back as it was sent
C28_PacketCameBack ==
    /\ applied.fn = "receive_packet"
    /\ applied.origin = "send_packet"
    /\ applied.frames = << << PIT_FILE, <<1, 0>> >> >>
    /\ Len(applied.received) = 1
    /\ applied.received[1].type = PIT_FILE
    /\ applied.received[1].data = <<1, 0>>

(***************************************************************************)
(* C29.  Framing is self-delimiting on a stream: receive_packet calls on   *)
(* the concatenation of the encodings of a run of frames return exactly    *)
(* those frames, in order, each call consuming 8 bytes and the payload     *)
(* (8 bytes for an empty payload), and the run is over when the stream is. *)
(***************************************************************************)
C29_SelfDelimiting ==
    (applied.fn = "receive_packet" /\ applied.origin = "send_packet") =>
        LET n == Len(applied.received)
        IN  /\ n <= Len(applied.frames)
            /\ \A i \in 1..n :
                  /\ << applied.received[i].type, applied.received[i].data >>
                        = applied.frames[i]
                  /\ applied.received[i].consumed = 8 + Len(applied.frames[i][2])
            /\ applied.stream = Written(SubSeq(applied.frames, n + 1, Len(applied.frames)))
            /\ (applied.stream = <<>> <=> n = Len(applied.frames))

\* a frame with an empty payload, then one whose payload looks like a header,
\* both read back, nothing left on the stream
C29_TwoFramesReadBack ==
    /\ applied.fn = "receive_packet"
    /\ applied.origin = "send_packet"
    /\ applied.frames = << << HANDSHAKE, <<>> >>,
                           << FLASH_SEND_DATA, <<2, 0, 0, 0, 1, 0, 0, 0>> >> >>
    /\ Len(applied.received) = 2
    /\ applied.received[1].consumed = 8
    /\ applied.received[2].consumed = 16
    /\ applied.stream = <<>>

(***************************************************************************)
(* C30.  Decoding a frame whose header length field exceeds the configured *)
(* maximum payload size (8 MiB) fails, and no payload read of that size is *)
(* issued to the transport.                                                *)
(***************************************************************************)
MaxPayloadSize == 8 * ScaledMiB

C30_OversizedLengthRefused ==
    applied.fn = "receive_packet" =>
        \A i \in 1..Len(applied.received) :
            LET call == applied.received[i]
            IN  call.length > MaxPayloadSize =>
                    /\ call.type = None
                    /\ \A k \in 1..Len(call.reads) : call.reads[k] <= MaxPayloadSize

(***************************************************************************)
(* C31.  Decoding never returns a truncated frame: a receive_packet call   *)
(* either returns a payload of exactly the number of bytes announced in    *)
(* the header length field or reports a failure; fewer than 8 header       *)
(* bytes, or fewer payload bytes than announced, is a failure.             *)
(***************************************************************************)
C31_NoTruncatedFrame ==
    applied.fn = "receive_packet" =>
        \A i \in 1..Len(applied.received) :
            LET call == applied.received[i]
            IN  /\ call.length = None => call.type = None
                /\ call.type # None => Len(call.data) = call.length

(***************************************************************************)
(* C32.  The orchestrator fails when there is no device:                   *)
(* flash_firmware_files invoked while no device is connected returns       *)
(* failure without reading any firmware file and without sending any       *)
(* frame.                                                                  *)
(***************************************************************************)
C32_NoDeviceNoFlash ==
    [][ (JobIdle /\ ~JobIdle' /\ connected_device = None) =>
            /\ job_pc' = "returned"
            /\ job_result' = "fail"
            /\ current' = NoFile
            /\ partitions' = <<>>
            /\ flash_log' = <<>>
            /\ sent' = sent
            /\ pc' = "idle" ]_vars

\* a job started with no device connected has returned failure
C32_RefusedWithoutDevice ==
    /\ job_pc = "returned"
    /\ job_result = "fail"
    /\ job_cause = "not_connected"
    /\ connected_device = None
    /\ current = NoFile
    /\ flash_log = <<>>

(***************************************************************************)
(* C33.  When device detection reports a non-empty device list and no      *)
(* current device is set, the tool connects the engine to the first device *)
(* of the list, so that a later start of a flash finds the engine          *)
(* connected to that device: while the window runs and the last report     *)
(* named a device, that device is the current one and connect_device was   *)
(* called on the engine.                                                   *)
(***************************************************************************)
C33_DetectedDeviceConnected ==
    (window.phase = "running" /\ window.connected_devices # <<>>) =>
        /\ window.current_device = Head(window.connected_devices)
        /\ op = "connect_device"

(***************************************************************************)
(* C35.  No flash frame is ever sent on a session that has not been        *)
(* handshaken: session_active becomes true only in the step that receives  *)
(* a reply of type HANDSHAKE to a HANDSHAKE frame, it is false after every *)
(* disconnect and every reboot that wrote END_SESSION, and a               *)
(* FLASH_SET_TOTAL_BYTES or FLASH_SEND_DATA frame is written only by       *)
(* flash_partition and only while session_active is true.                  *)
(***************************************************************************)
C35_FlashOnlyWhenHandshaken ==
    [][ /\ (session_active' /\ ~session_active) =>
              /\ pc = "hs_recv"
              /\ sent[Len(sent)] = Frame(HANDSHAKE, <<>>)
              /\ recvd' = Append(recvd, HANDSHAKE)
        /\ (op' = "disconnect" /\ pc' = "idle" /\ prev' # prev) => ~session_active'
        /\ (op' = "reboot_device" /\ pc' = "idle" /\ prev' # prev /\ sent' # <<>>) =>
              ~session_active'
        /\ (/\ Len(sent') = Len(sent) + 1
            /\ sent'[Len(sent')].type \in {FLASH_SET_TOTAL_BYTES, FLASH_SEND_DATA}) =>
              /\ op = "flash_partition"
              /\ session_active /\ session_active' ]_vars

\* flash_partition on a session that was only connected: it has handshaken
\* by itself and then written FLASH_SET_TOTAL_BYTES
C35_FlashAfterOwnHandshake ==
    /\ op = "flash_partition"
    /\ entry = "connected"
    /\ Len(sent) >= 2
    /\ sent[1] = Frame(HANDSHAKE, <<>>)
    /\ recvd[1] = HANDSHAKE
    /\ sent[2].type = FLASH_SET_TOTAL_BYTES
    /\ session_active

(***************************************************************************)
(* C36.  END_SESSION is sent at most once per handshaken session: a        *)
(* reboot_device or disconnect call writes END_SESSION only on a session   *)
(* that is handshaken when the call begins (and the frame ends that        *)
(* state), so that between two successful handshakes at most one is        *)
(* written, and none on a session that was never handshaken.               *)
(***************************************************************************)
C36_EndSessionOncePerSession ==
    (op \in {"reboot_device", "disconnect"} /\ OfType(sent, END_SESSION) # <<>>) =>
        /\ entry = "handshaken"
        /\ Len(OfType(sent, END_SESSION)) = 1

(***************************************************************************)
(* C37.  flash_partition called with data of 2^32 bytes or more fails      *)
(* without sending any FLASH_SET_TOTAL_BYTES or FLASH_SEND_DATA frame; the *)
(* length is never sent truncated modulo 2^32.  A length below 2^32 is     *)
(* sent as it is.                                                          *)
(***************************************************************************)
C37_OversizedImageRefused ==
    applied.fn = "flash_partition" =>
        LET flash == { i \in 1..Len(applied.call.sent) :
                         applied.call.sent[i].type \in {FLASH_SET_TOTAL_BYTES,
                                                        FLASH_SEND_DATA} }
        IN  /\ applied.size.hi >= 65536 =>
                  /\ applied.call.result = "fail"
                  /\ flash = {}
            /\ \A i \in flash :
                  /\ applied.size.hi < 65536
                  /\ UnpackU32(SubSeq(applied.call.sent[i].payload, 1, 2) \o <<0, 0>>)
                        = applied.size.lo
                  /\ UnpackU32(SubSeq(applied.call.sent[i].payload, 3, 4) \o <<0, 0>>)
                        = applied.size.hi

\* an image of 2^32 + 1 bytes on a handshaken session: the call has failed
\* and written nothing
C37_FourGiBRefused ==
    /\ applied.fn = "flash_partition"
    /\ applied.active
    /\ applied.size = [hi |-> 65536, lo |-> 1]
    /\ applied.call.result = "fail"
    /\ applied.call.sent = <<>>

(***************************************************************************)
(* C38.  When several regular-file members of one archive classify to the  *)
(* same slot, parse_tar_firmware returns for that slot the bytes of the    *)
(* last such member in archive order; the result has exactly one entry per *)
(* distinct slot reached by some regular member and no entry for           *)
(* non-regular members.                                                    *)
(***************************************************************************)
C38_LastMemberWins ==
    applied.fn = "parse_tar_firmware" =>
        LET members == applied.members
            dict == applied.value
            regular == { k \in 1..Len(members) : members[k].isfile }
            last(key) == CHOOSE k \in regular :
                            /\ firmware_key(members[k].name) = key
                            /\ \A j \in regular :
                                  firmware_key(members[j].name) = key => j <= k
        IN  /\ \A k \in regular :
                  \E i \in 1..Len(dict) : dict[i].key = firmware_key(members[k].name)
            /\ \A i, j \in 1..Len(dict) : dict[i].key = dict[j].key => i = j
            /\ \A i \in 1..Len(dict) :
                  /\ \E k \in regular : firmware_key(members[k].name) = dict[i].key
                  /\ dict[i].value = members[last(dict[i].key)].data

\* boot, then a directory entry named bl, then sboot: one entry, BOOT, with
\* the bytes of the third member
C38_SbootReplacesBoot ==
    /\ applied.fn = "parse_tar_firmware"
    /\ Len(applied.members) = 3
    /\ applied.members[1].name = w_boot /\ applied.members[1].isfile
    /\ applied.members[2].name = w_bl /\ ~applied.members[2].isfile
    /\ applied.members[3].name = w_sboot /\ applied.members[3].isfile
    /\ applied.value = << [key |-> K_BOOT, value |-> << 163 >>] >>

(***************************************************************************)
(* C39.  The two integrity checkers agree: for every combination of file   *)
(* (present or missing) and sidecar (absent, empty, digest matching,       *)
(* digest not matching), FirmwareParser.verify_firmware_integrity returns  *)
(* True exactly when flash_engines.verify_firmware_integrity returns a     *)
(* result with valid == True.                                              *)
(***************************************************************************)
C39_CheckersAgree ==
    applied.fn = "verify_firmware_integrity" => (applied.value <=> applied.valid)

(***************************************************************************)
(* C40.  A failed update leaves the installation as it was: whenever       *)
(* install_update returns failure after the backup was created, the        *)
(* application directory has the same contents as before the call.         *)
(***************************************************************************)
C40_FailedUpdateLeavesInstallation ==
    (/\ applied.fn = "install_update"
     /\ applied.value.backup
     /\ ~applied.value.ok) =>
        applied.value.dir = applied.dir

====
